---- MODULE Spec2Model ----
(***************************************************************************)
(* Model of ljp: an interactive kana drill.  A StudySession holds the      *)
(* items of the requested sets, one u32 weight per item and a cached       *)
(* WeightedIndex built from the weights; run_session samples an index,     *)
(* reads a line, and resets / increments the weights.                      *)
(*                                                                         *)
(* Text is a sequence of characters (one-character strings), so that       *)
(* trim, split and starts_with are computed as the code computes them.     *)
(* A u32 is a pair of 16-bit limbs [hi, lo] standing for hi * 2^16 + lo:   *)
(* the weights keep their 32-bit width although TLC's integers are         *)
(* narrower.                                                               *)
(***************************************************************************)
EXTENDS Integers, Sequences, FiniteSets, TLC

(* ------------------------------ bounds -------------------------------- *)

\* Answer cycles (answers scored, right or wrong) explored in one behaviour.
MaxCycles == 3

\* Longest line given to the command parser on its own.
MaxLineLen == 3

\* Longest table text given to the loaders on their own.
MaxCsvLen == 5

\* A warm session starts Margin cycles before the weights' total
\* reaches u32::MAX.
Margin == 1

(* ------------------------------- text --------------------------------- *)

BS == "\\"
NL == "\n"
SP == " "
COMMA == ","

\* char::is_whitespace, on the characters the model uses
IsWhitespace(c) == c \in {SP, NL, "\t", "\r"}

RECURSIVE TrimStart(_)
TrimStart(s) ==
    IF s = <<>> THEN s
    ELSE IF IsWhitespace(Head(s)) THEN TrimStart(Tail(s)) ELSE s

RECURSIVE TrimEnd(_)
TrimEnd(s) ==
    IF s = <<>> THEN s
    ELSE IF IsWhitespace(s[Len(s)]) THEN TrimEnd(SubSeq(s, 1, Len(s) - 1)) ELSE s

\* str::trim
Trim(s) == TrimEnd(TrimStart(s))

\* str::split(sep): the pieces between separators; "" splits into <<"">>
RECURSIVE SplitAcc(_, _, _)
SplitAcc(s, sep, cur) ==
    IF s = <<>> THEN << cur >>
    ELSE IF Head(s) = sep THEN << cur >> \o SplitAcc(Tail(s), sep, <<>>)
    ELSE SplitAcc(Tail(s), sep, Append(cur, Head(s)))

Split(s, sep) == SplitAcc(s, sep, <<>>)

StripCr(l) == IF l # <<>> /\ l[Len(l)] = "\r" THEN SubSeq(l, 1, Len(l) - 1) ELSE l

\* str::lines: split at "\n", no final empty line, a trailing "\r" dropped
Lines(data) ==
    LET pieces == Split(data, NL)
        kept == IF pieces[Len(pieces)] = <<>>
                THEN SubSeq(pieces, 1, Len(pieces) - 1) ELSE pieces
    IN  [i \in 1..Len(kept) |-> StripCr(kept[i])]

\* str::starts_with(c)
StartsWith(s, c) == s # <<>> /\ Head(s) = c

(* ------------------------------ the sets ------------------------------ *)

\* The bundled tables: romaji,kana for hiragana and kana,romaji for katakana.
\* A kana glyph is one character, written here in capitals.
HiraganaCsv ==
    << "a", COMMA, "HA", NL,
       "i", COMMA, SP, "HI", NL,
       NL,
       "u", NL,
       "e", COMMA, "HE", COMMA, "x", NL >>

KatakanaCsv ==
    << "KA", COMMA, "a", NL,
       SP, SP, NL,
       "KI", SP, COMMA, "i", "\r", NL,
       "KU" >>

StudyItem(front, back) == [front |-> front, back |-> back]

\* the hiragana loop keeping the file's column order
RECURSIVE HiraganaItemsFileOrder(_)
HiraganaItemsFileOrder(lines) ==
    IF lines = <<>> THEN <<>>
    ELSE LET line == Head(lines)
             parts == Split(line, COMMA)
             rest == HiraganaItemsFileOrder(Tail(lines))
         IN  IF Trim(line) = <<>> THEN rest
             ELSE IF Len(parts) = 2
                  THEN << StudyItem(Trim(parts[1]), Trim(parts[2])) >> \o rest
                  ELSE rest

RECURSIVE HiraganaItems(_)
HiraganaItems(lines) ==
    IF lines = <<>> THEN <<>>
    ELSE LET line == Head(lines)
             parts == Split(line, COMMA)
             rest == HiraganaItems(Tail(lines))
         IN  IF Trim(line) = <<>> THEN rest
             ELSE IF Len(parts) = 2
                  THEN << StudyItem(Trim(parts[2]), Trim(parts[1])) >> \o rest
                  ELSE rest

HiraganaLoad == HiraganaItems(Lines(HiraganaCsv))

RECURSIVE KatakanaItems(_)
KatakanaItems(lines) ==
    IF lines = <<>> THEN <<>>
    ELSE LET line == Head(lines)
             parts == Split(line, COMMA)
             rest == KatakanaItems(Tail(lines))
         IN  IF Trim(line) = <<>> THEN rest
             ELSE IF Len(parts) = 2
                  THEN << StudyItem(Trim(parts[1]), Trim(parts[2])) >> \o rest
                  ELSE rest

KatakanaLoad == KatakanaItems(Lines(KatakanaCsv))

HIRAGANA == << "h", "i", "r", "a", "g", "a", "n", "a" >>
KATAKANA == << "k", "a", "t", "a", "k", "a", "n", "a" >>
KANJI == << "k", "a", "n", "j", "i" >>

\* Option<T> is a sequence of at most one element
None == <<>>
Some(x) == << x >>

\* get_set: the loader registered under the exact name
get_set(name) ==
    IF name = HIRAGANA THEN Some([name |-> HIRAGANA, load |-> HiraganaLoad])
    ELSE IF name = KATAKANA THEN Some([name |-> KATAKANA, load |-> KatakanaLoad])
    ELSE None

(* -------------------------------- u32 --------------------------------- *)

Base == 65536

U32(hi, lo) == [hi |-> hi, lo |-> lo]
Zero == U32(0, 0)
One == U32(0, 1)
Two == U32(0, 2)
U32Max == U32(Base - 1, Base - 1)

U32Lt(a, b) == a.hi < b.hi \/ (a.hi = b.hi /\ a.lo < b.lo)
U32Le(a, b) == a = b \/ U32Lt(a, b)

\* u32::checked_add: None on overflow
CheckedAdd(a, b) ==
    LET lo == a.lo + b.lo
        hi == a.hi + b.hi + (lo \div Base)
    IN  IF hi >= Base THEN None ELSE Some(U32(hi, lo % Base))

\* u32 addition with overflow checks off: modulo 2^32
WrappingAdd(a, b) ==
    LET lo == a.lo + b.lo
        hi == a.hi + b.hi + (lo \div Base)
    IN  U32(hi % Base, lo % Base)

\* a - k for a small k <= a (used to place the warm start)
U32Minus(a, k) ==
    IF a.lo >= k THEN U32(a.hi, a.lo - k) ELSE U32(a.hi - 1, a.lo + Base - k)

\* a \div n for a small n > 0
U32Div(a, n) ==
    U32(a.hi \div n, (((a.hi % n) * Base) + a.lo) \div n)

(* ----------------------- rand's WeightedIndex ------------------------- *)

Ok(v) == [tag |-> "Ok", value |-> v]
Err(e) == [tag |-> "Err", value |-> e]

\* the loop of WeightedIndex::new over the weights after the first: push the
\* running total, then add the weight with checked_add_assign
RECURSIVE Cumulate(_, _, _)
Cumulate(rest, total, acc) ==
    IF rest = <<>> THEN Ok([cumulative_weights |-> acc, total_weight |-> total])
    ELSE LET sum == CheckedAdd(total, Head(rest))
         IN  IF sum = None THEN Err("Overflow")
             ELSE Cumulate(Tail(rest), sum[1], Append(acc, total))

\* WeightedIndex::<u32>::new(&weights)
WeightedIndexNew(ws) ==
    IF ws = <<>> THEN Err("InvalidInput")
    ELSE LET r == Cumulate(Tail(ws), Head(ws), <<>>)
         IN  IF r.tag = "Err" THEN r
             ELSE IF r.value.total_weight = Zero THEN Err("InsufficientNonZero")
             ELSE r

\* WeightedIndex::sample draws chosen in [0, total_weight) and returns the
\* number of cumulative weights <= chosen: index i (0-based) is a possible
\* result exactly when its interval of chosen values is not empty
DistLow(d, i) == IF i = 0 THEN Zero ELSE d.cumulative_weights[i]
DistHigh(d, i) ==
    IF i = Len(d.cumulative_weights) THEN d.total_weight
    ELSE d.cumulative_weights[i + 1]

SampleIndices(d) ==
    { i \in 0..Len(d.cumulative_weights) : U32Lt(DistLow(d, i), DistHigh(d, i)) }

(* ---------------------------- StudySession ---------------------------- *)

EmptySession == [sets |-> <<>>, items |-> <<>>, weights |-> <<>>, dist |-> None]

\* the for loop of StudySession::new putting each set's items before the
\* items already loaded
RECURSIVE ResolvePrepends(_, _, _)
ResolvePrepends(names, resolved_sets, items) ==
    IF names = <<>> THEN [sets |-> resolved_sets, items |-> items]
    ELSE LET found == get_set(Head(names))
         IN  IF found # None
             THEN ResolvePrepends(Tail(names), Append(resolved_sets, found[1].name),
                                  found[1].load \o items)
             ELSE ResolvePrepends(Tail(names), resolved_sets, items)

\* the for loop of StudySession::new
RECURSIVE Resolve(_, _, _)
Resolve(names, resolved_sets, items) ==
    IF names = <<>> THEN [sets |-> resolved_sets, items |-> items]
    ELSE LET found == get_set(Head(names))
         IN  IF found # None
             THEN Resolve(Tail(names), Append(resolved_sets, found[1].name),
                          items \o found[1].load)
             ELSE Resolve(Tail(names), resolved_sets, items)

\* StudySession::new with one weight per resolved set instead of per item
SessionNewWeightPerSet(names) ==
    LET r == Resolve(names, <<>>, <<>>)
        weights == [i \in 1..Len(r.sets) |-> One]
        built == WeightedIndexNew(weights)
    IN  IF weights # <<>> /\ built.tag = "Err" THEN Err("new")
        ELSE Ok([sets |-> r.sets, items |-> r.items, weights |-> weights,
                 dist |-> IF weights # <<>> THEN Some(built.value) ELSE None])

\* StudySession::new that leaves the index to the first sync_dist
SessionNewNoDist(names) ==
    LET r == Resolve(names, <<>>, <<>>)
    IN  Ok([sets |-> r.sets, items |-> r.items,
            weights |-> [i \in 1..Len(r.items) |-> One], dist |-> None])

\* StudySession::new without the is_empty test: the index is always built
SessionNewAlwaysBuilds(names) ==
    LET r == Resolve(names, <<>>, <<>>)
        weights == [i \in 1..Len(r.items) |-> One]
        built == WeightedIndexNew(weights)
    IN  IF built.tag = "Err" THEN Err("new")
        ELSE Ok([sets |-> r.sets, items |-> r.items, weights |-> weights,
                 dist |-> Some(built.value)])

\* StudySession::new
SessionNew(names) ==
    LET r == Resolve(names, <<>>, <<>>)
        weights == [i \in 1..Len(r.items) |-> One]
        built == WeightedIndexNew(weights)
    IN  IF weights # <<>> /\ built.tag = "Err" THEN Err("new")
        ELSE Ok([sets |-> r.sets, items |-> r.items, weights |-> weights,
                 dist |-> IF weights # <<>> THEN Some(built.value) ELSE None])

\* sync_dist that keeps the old distribution
SyncDistKeepsOld(s) == [s |-> s, status |-> "Ok"]

\* StudySession::sync_dist: the session afterwards and the Result
sync_dist(s) ==
    IF s.weights # <<>>
    THEN LET built == WeightedIndexNew(s.weights)
         IN  IF built.tag = "Err" THEN [s |-> s, status |-> "Err"]
             ELSE [s |-> [s EXCEPT !.dist = Some(built.value)], status |-> "Ok"]
    ELSE [s |-> s, status |-> "Ok"]

\* weights.iter_mut().for_each(|w| *w += 1): with overflow checks the first
\* weight at u32::MAX panics, the weights before it already incremented;
\* without them the addition wraps
RECURSIVE AddOneEach(_, _, _)
AddOneEach(ws, overflow_checks, done) ==
    IF ws = <<>> THEN [weights |-> done, panicked |-> FALSE]
    ELSE IF overflow_checks /\ Head(ws) = U32Max
         THEN [weights |-> done \o ws, panicked |-> TRUE]
         ELSE AddOneEach(Tail(ws), overflow_checks,
                         Append(done, WrappingAdd(Head(ws), One)))

\* StudySession::increment
increment(s, overflow_checks) ==
    LET added == AddOneEach(s.weights, overflow_checks, <<>>)
        t == [s EXCEPT !.weights = added.weights]
    IN  IF added.panicked THEN [s |-> t, status |-> "Panic"]
        ELSE sync_dist(t)

\* reset that takes the weight to 0
ResetToZero(s, index) ==
    IF index < Len(s.weights)
    THEN sync_dist([s EXCEPT !.weights[index + 1] = Zero])
    ELSE [s |-> s, status |-> "Ok"]

\* reset that clamps an out-of-bounds index to the last item
ResetClamped(s, index) ==
    IF s.weights # <<>>
    THEN LET i == IF index < Len(s.weights) THEN index ELSE Len(s.weights) - 1
         IN  sync_dist([s EXCEPT !.weights[i + 1] = One])
    ELSE [s |-> s, status |-> "Ok"]

\* StudySession::reset (index is 0-based, as in the code)
reset(s, index) ==
    IF index < Len(s.weights)
    THEN sync_dist([s EXCEPT !.weights[index + 1] = One])
    ELSE [s |-> s, status |-> "Ok"]

\* StudySession::sample looking the item up one place too far
SampleOffByOne(s) ==
    IF s.dist # None
    THEN { IF index + 1 < Len(s.items)
           THEN Some([index |-> index, item |-> s.items[index + 2]])
           ELSE None : index \in SampleIndices(s.dist[1]) }
    ELSE { None }

\* StudySession::sample: the results the draw can give
sample(s) ==
    IF s.dist # None
    THEN { IF index < Len(s.items)
           THEN Some([index |-> index, item |-> s.items[index + 1]])
           ELSE None : index \in SampleIndices(s.dist[1]) }
    ELSE { None }

(* ------------------------------ commands ------------------------------ *)

Command(kind, text) == [kind |-> kind, text |-> text]

\* Commands::from_str without the arm for unknown commands
FromStrUnknownIsAnswer(s) ==
    IF s = << BS, "h" >> THEN Ok(Command("Help", <<>>))
    ELSE IF s = << BS, "w" >> THEN Ok(Command("Weights", <<>>))
    ELSE IF s = << BS, "q" >> THEN Ok(Command("Quit", <<>>))
    ELSE Ok(Command("Answer", s))

\* Commands::from_str
from_str(s) ==
    IF s = << BS, "h" >> THEN Ok(Command("Help", <<>>))
    ELSE IF s = << BS, "w" >> THEN Ok(Command("Weights", <<>>))
    ELSE IF s = << BS, "q" >> THEN Ok(Command("Quit", <<>>))
    ELSE IF StartsWith(s, BS) THEN Err("Unknown command")
    ELSE Ok(Command("Answer", s))

\* Commands::from_str(input.trim()), as run_session calls it
Classify(line) ==
    LET c == from_str(Trim(line))
    IN  IF c.tag = "Err" THEN "Invalid" ELSE c.value.kind

(* ------------------------------- inputs ------------------------------- *)

\* --sets values given on the command line
SetsArgs ==
    { HIRAGANA, KATAKANA, KANJI, <<>>,
      HIRAGANA \o << COMMA >> \o KATAKANA,
      KATAKANA \o << COMMA >> \o HIRAGANA,
      KANJI \o << COMMA >> \o HIRAGANA }

\* lines read_line can deliver (<<>> is end of input)
InputLines ==
    { << BS, "h", NL >>, << SP, BS, "w", NL >>, << BS, "q", NL >>,
      << BS, "x", NL >>, << "a", NL >>, << "i", SP, "\r", NL >>,
      << "A", NL >>, << NL >>, <<>> }

(* ------------------------------- state -------------------------------- *)

VARIABLES
    args,             \* Args: [sets, list]
    overflow_checks,  \* whether the build checks integer overflow
    session,          \* the StudySession
    pc,               \* "main", "loop" (top of the loop), "read", "exit", "api"
    result,           \* "running", "ok", "err", "panic"
    sampled,          \* Option<(item_index, item)> of the latest sample()
    steps,            \* answer cycles taken in this behaviour
    last,             \* the latest step: what ran, on what, what it called
    display_sets,     \* main's sorted copy of session.sets
    input,            \* the line of this pass of the loop
    command,          \* Option<Result<Commands>>: what input parsed to
    age,              \* per item: answer cycles since, and including, the
                      \* latest one that answered it right; all of them if none
    assets,           \* ASSETS_DIR: the text of each bundled table
    loaded            \* Option<(set, items)>: what the latest load() returned

vars ==
    << args, overflow_checks, session, pc, result, sampled, steps, last,
       display_sets, input, command, age, assets, loaded >>

Step(op, line, arg, calls, status, pre) ==
    [op |-> op, line |-> line, arg |-> arg, calls |-> calls,
     status |-> status, pre |-> pre]

ItemCount(a) == Len(Resolve(Split(a, COMMA), <<>>, <<>>).items)

\* the distribution a session of n items holds once every weight is k: the
\* one built from the weights, or, when their total no longer fits, the last
\* one that could be built (every weight u32::MAX \div n)
UniformDist(n, k) ==
    LET fit == U32Div(U32Max, n)
        w == IF U32Le(k, fit) THEN k ELSE fit
    IN  Some(WeightedIndexNew([i \in 1..n |-> w]).value)

\* the session for --sets a after every weight was incremented up to k
UniformSession(a, k) ==
    LET s == SessionNew(Split(a, COMMA)).value
        n == Len(s.items)
    IN  [s EXCEPT !.weights = [i \in 1..n |-> k], !.dist = UniformDist(n, k)]

\* the order of String on the letters set names are made of
Letters ==
    << "a", "b", "c", "d", "e", "f", "g", "h", "i", "j", "k", "l", "m",
       "n", "o", "p", "q", "r", "s", "t", "u", "v", "w", "x", "y", "z" >>

Rank(c) == CHOOSE i \in 1..Len(Letters) : Letters[i] = c

RECURSIVE TextLe(_, _)
TextLe(a, b) ==
    IF a = <<>> THEN TRUE
    ELSE IF b = <<>> THEN FALSE
    ELSE IF Head(a) = Head(b) THEN TextLe(Tail(a), Tail(b))
    ELSE Rank(Head(a)) < Rank(Head(b))

RECURSIVE Insert(_, _)
Insert(x, sorted) ==
    IF sorted = <<>> THEN << x >>
    ELSE IF TextLe(x, Head(sorted)) THEN << x >> \o sorted
    ELSE << Head(sorted) >> \o Insert(x, Tail(sorted))

\* Vec<String>::sort
RECURSIVE Sort(_)
Sort(names) == IF names = <<>> THEN <<>> ELSE Insert(Head(names), Sort(Tail(names)))

BundledAssets == [hiragana |-> HiraganaCsv, katakana |-> KatakanaCsv]

\* at the start of main
InitFresh ==
    /\ args \in [sets : SetsArgs, list : BOOLEAN]
    /\ session = EmptySession
    /\ pc = "main"
    /\ sampled = None
    /\ last = Step("start", <<>>, -1, <<>>, "Ok", EmptySession)
    /\ display_sets = <<>>
    /\ input = <<>>
    /\ command = None
    /\ age = <<>>

\* at the top of the loop, after so many wrong answers that every weight is
\* Margin below the largest value at which the total still fits in a u32
InitWarm ==
    /\ \E a \in { x \in SetsArgs : ItemCount(x) > 0 } :
          LET k == U32Minus(U32Div(U32Max, ItemCount(a)), Margin)
          IN  /\ args = [sets |-> a, list |-> FALSE]
              /\ session = UniformSession(a, k)
              /\ sampled = Some([index |-> 0, item |-> session.items[1]])
              /\ last = Step("Answer", << NL >>, 0, << "increment" >>, "Ok",
                             UniformSession(a, U32Minus(k, 1)))
              /\ display_sets = Sort(session.sets)
              /\ age = [i \in 1..ItemCount(a) |-> U32Minus(k, 1)]
    /\ input = << NL >>
    /\ command = Some(from_str(Trim(input)))
    /\ pc = "loop"

Init ==
    /\ overflow_checks \in BOOLEAN
    /\ result = "running"
    /\ steps = 0
    /\ assets = BundledAssets
    /\ loaded = None
    /\ (InitFresh \/ InitWarm)

(* --------------------------- main, run_session ------------------------ *)

Exit(r) == pc' = "exit" /\ result' = r

\* main with --list
List ==
    /\ pc = "main" /\ args.list
    /\ Exit("ok")
    /\ last' = Step("list", <<>>, -1, <<>>, "Ok", session)
    /\ UNCHANGED << assets, loaded, args, overflow_checks, session, sampled, steps,
                    display_sets, input, command, age >>

\* main up to the call of run_session
Main ==
    /\ pc = "main" /\ ~args.list
    /\ LET r == SessionNew(Split(args.sets, COMMA))
       IN  IF r.tag = "Err"
           THEN /\ Exit("err")
                /\ last' = Step("new", <<>>, -1, << "new" >>, "Err", session)
                /\ UNCHANGED << session, display_sets, age >>
           ELSE /\ session' = r.value
                /\ display_sets' = Sort(r.value.sets)
                /\ age' = [i \in 1..Len(r.value.items) |-> Zero]
                /\ pc' = "loop"
                /\ last' = Step("new", <<>>, -1, << "new" >>, "Ok", session)
                /\ UNCHANGED result
    /\ UNCHANGED << assets, loaded, args, overflow_checks, sampled, steps, input,
                    command >>

\* a sample() that takes the drawn item's weight back to 1
SampleItemResets ==
    /\ pc = "loop"
    /\ \E r \in sample(session) :
          /\ r # None
          /\ sampled' = r
          /\ session' = reset(session, r[1].index).s
          /\ last' = Step("sample", <<>>, r[1].index, << "sample" >>, "Ok", session)
    /\ pc' = "read"
    /\ input' = <<>>
    /\ command' = None
    /\ UNCHANGED << assets, loaded, args, overflow_checks, result, steps,
                    display_sets, age >>

\* top of the loop: session.sample() gives an item; its front is printed
SampleItem ==
    /\ pc = "loop"
    /\ \E r \in sample(session) :
          /\ r # None
          /\ sampled' = r
          /\ last' = Step("sample", <<>>, r[1].index, << "sample" >>, "Ok", session)
    /\ pc' = "read"
    /\ input' = <<>>
    /\ command' = None
    /\ UNCHANGED << assets, loaded, args, overflow_checks, session, result, steps,
                    display_sets, age >>

\* top of the loop: session.sample() gives None; the session ends
SampleNone ==
    /\ pc = "loop"
    /\ None \in sample(session)
    /\ sampled' = None
    /\ last' = Step("sample", <<>>, -1, << "sample" >>, "Ok", session)
    /\ Exit("ok")
    /\ UNCHANGED << assets, loaded, args, overflow_checks, session, steps,
                    display_sets, input, command, age >>

\* read_line fails
ReadError ==
    /\ pc = "read"
    /\ Exit("err")
    /\ last' = Step("read_line", <<>>, -1, <<>>, "Err", session)
    /\ UNCHANGED << assets, loaded, args, overflow_checks, session, sampled, steps,
                    display_sets, input, command, age >>

\* an arm without its `continue`: it falls through to increment()
ContinueFallsThrough(kind, line) ==
    /\ Classify(line) = kind
    /\ session' = increment(session, overflow_checks).s
    /\ last' = Step(kind, line, -1, << "increment" >>, "Ok", session)
    /\ pc' = "loop"
    /\ input' = line
    /\ command' = Some(from_str(Trim(line)))
    /\ UNCHANGED << assets, loaded, args, overflow_checks, result, sampled, steps,
                    display_sets, age >>

\* an arm that ends the loop with `break Ok(())` instead of `continue`
ContinueBreaks(kind, line) ==
    /\ Classify(line) = kind
    /\ last' = Step(kind, line, -1, <<>>, "Ok", session)
    /\ Exit("ok")
    /\ input' = line
    /\ command' = Some(from_str(Trim(line)))
    /\ UNCHANGED << assets, loaded, args, overflow_checks, session, sampled, steps,
                    display_sets, age >>

\* an arm that prompts again for the item already drawn
ContinueKeepsItem(kind, line) ==
    /\ Classify(line) = kind
    /\ last' = Step(kind, line, -1, <<>>, "Ok", session)
    /\ input' = line
    /\ command' = Some(from_str(Trim(line)))
    /\ UNCHANGED << assets, loaded, args, overflow_checks, session, pc, result,
                    sampled, steps, display_sets, age >>

\* an arm that goes back to the top of the loop with `continue`
Continue(kind, line) ==
    /\ Classify(line) = kind
    /\ last' = Step(kind, line, -1, <<>>, "Ok", session)
    /\ pc' = "loop"
    /\ input' = line
    /\ command' = Some(from_str(Trim(line)))
    /\ UNCHANGED << assets, loaded, args, overflow_checks, session, result, sampled,
                    steps, display_sets, age >>

\* \h
Help ==
    /\ pc = "read"
    /\ \E line \in InputLines : Continue("Help", line)

\* \w
Weights ==
    /\ pc = "read"
    /\ \E line \in InputLines : Continue("Weights", line)

\* any other line that starts with a backslash
Invalid ==
    /\ pc = "read"
    /\ \E line \in InputLines : Continue("Invalid", line)

\* \q
Quit ==
    /\ pc = "read"
    /\ \E line \in InputLines :
          /\ Classify(line) = "Quit"
          /\ last' = Step("Quit", line, -1, <<>>, "Ok", session)
          /\ input' = line
          /\ command' = Some(from_str(Trim(line)))
    /\ Exit("ok")
    /\ UNCHANGED << assets, loaded, args, overflow_checks, session, sampled, steps,
                    display_sets, age >>

\* the Answer arm with increment() before reset()
ScoreIncrementFirst(s, item_index, item, answer, checks) ==
    LET i == increment(s, checks)
    IN  IF answer = item.back
        THEN IF i.status # "Ok"
             THEN [s |-> i.s, calls |-> << "increment" >>, status |-> i.status]
             ELSE LET r == reset(i.s, item_index)
                  IN  [s |-> r.s, calls |-> << "increment", "reset" >>,
                       status |-> r.status]
        ELSE [s |-> i.s, calls |-> << "increment" >>, status |-> i.status]

\* the Answer arm with reset() called whatever the answer
ScoreAlwaysResets(s, item_index, item, answer, checks) ==
    LET r == reset(s, item_index)
    IN  IF r.status # "Ok"
        THEN [s |-> r.s, calls |-> << "reset" >>, status |-> r.status]
        ELSE LET i == increment(r.s, checks)
             IN  [s |-> i.s, calls |-> << "reset", "increment" >>,
                  status |-> i.status]

\* the Answer arm and the increment that follows it: what the session
\* becomes, the calls made and the status of the last one
Score(s, item_index, item, answer, checks) ==
    IF answer = item.back
    THEN LET r == reset(s, item_index)
         IN  IF r.status # "Ok"
             THEN [s |-> r.s, calls |-> << "reset" >>, status |-> r.status]
             ELSE LET i == increment(r.s, checks)
                  IN  [s |-> i.s, calls |-> << "reset", "increment" >>,
                       status |-> i.status]
    ELSE LET i == increment(s, checks)
         IN  [s |-> i.s, calls |-> << "increment" >>, status |-> i.status]

\* the ages after an answer cycle on the drawn item: 1 for an item answered
\* right in this cycle, one more than before for every other item
Aged(ages, drawn, answer) ==
    [j \in 1..Len(ages) |->
        IF j = drawn.index + 1 /\ answer = drawn.item.back THEN One
        ELSE WrappingAdd(ages[j], One)]

Answer ==
    /\ pc = "read"
    /\ steps < MaxCycles
    /\ \E line \in InputLines :
          /\ Classify(line) = "Answer"
          /\ input' = line
          /\ command' = Some(from_str(Trim(line)))
          /\ age' = Aged(age, sampled[1], Trim(line))
          /\ LET o == Score(session, sampled[1].index, sampled[1].item,
                            from_str(Trim(line)).value.text, overflow_checks)
             IN  /\ session' = o.s
                 /\ last' = Step("Answer", line, sampled[1].index, o.calls,
                                 o.status, session)
                 /\ IF o.status = "Ok" THEN pc' = "loop" /\ UNCHANGED result
                    ELSE IF o.status = "Err" THEN Exit("err")
                    ELSE Exit("panic")
    /\ steps' = steps + 1
    /\ UNCHANGED << assets, loaded, args, overflow_checks, sampled, display_sets >>

Next ==
    \/ List
    \/ Main
    \/ SampleItem
    \/ SampleNone
    \/ ReadError
    \/ Help
    \/ Weights
    \/ Invalid
    \/ Quit
    \/ Answer

Spec == Init /\ [][Next]_vars

(* ---------------- the session's operations, called freely ------------- *)

\* a constructed session on which a caller makes any sequence of calls,
\* fresh or after so many increment() calls that every weight is Margin
\* below u32::MAX
InitApi ==
    /\ overflow_checks \in BOOLEAN
    /\ result = "running"
    /\ steps = 0
    /\ pc = "api"
    /\ sampled = None
    /\ display_sets = <<>>
    /\ input = <<>>
    /\ command = None
    /\ age = <<>>
    /\ assets = BundledAssets
    /\ loaded = None
    /\ \E a \in SetsArgs :
          /\ args = [sets |-> a, list |-> FALSE]
          /\ \/ /\ session = SessionNew(Split(a, COMMA)).value
                /\ last = Step("new", <<>>, -1, << "new" >>, "Ok", EmptySession)
             \/ /\ ItemCount(a) > 0
                /\ session = UniformSession(a, U32Minus(U32Max, Margin))
                /\ last = Step("increment", <<>>, -1, << "increment" >>,
                               sync_dist(session).status,
                               UniformSession(a, U32Minus(U32Max, Margin + 1)))

ApiDone(op, arg, o) ==
    /\ session' = o.s
    /\ last' = Step(op, <<>>, arg, << op >>, o.status, session)
    /\ IF o.status = "Panic" THEN Exit("panic") ELSE UNCHANGED << pc, result >>

ApiIncrement ==
    /\ pc = "api"
    /\ steps < MaxCycles
    /\ ApiDone("increment", -1, increment(session, overflow_checks))
    /\ steps' = steps + 1
    /\ UNCHANGED << assets, loaded, args, overflow_checks, sampled, display_sets,
                    input, command, age >>

ApiReset ==
    /\ pc = "api"
    /\ \E index \in 0..(Len(session.weights) + 1) :
          ApiDone("reset", index, reset(session, index))
    /\ UNCHANGED << assets, loaded, args, overflow_checks, sampled, steps,
                    display_sets, input, command, age >>

ApiSample ==
    /\ pc = "api"
    /\ \E r \in sample(session) :
          /\ sampled' = r
          /\ last' = Step("sample", <<>>, IF r = None THEN -1 ELSE r[1].index,
                          << "sample" >>, "Ok", session)
    /\ UNCHANGED << assets, loaded, args, overflow_checks, session, pc, result,
                    steps, display_sets, input, command, age >>

NextApi ==
    \/ ApiIncrement
    \/ ApiReset
    \/ ApiSample

SpecApi == InitApi /\ [][NextApi]_vars

(* ---------------------- the command parser alone ---------------------- *)

\* every text of at most n characters of chars
TextsUpTo(chars, n) == UNION { [1..k -> chars] : k \in 0..n }

LineChars == { BS, "h", "w", "q", "a", SP }

\* a line has been read: any line of at most MaxLineLen characters
InitClassify ==
    /\ input \in TextsUpTo(LineChars, MaxLineLen)
    /\ command = None
    /\ pc = "parse"
    /\ args = [sets |-> <<>>, list |-> FALSE]
    /\ overflow_checks = FALSE
    /\ session = EmptySession
    /\ result = "running"
    /\ sampled = None
    /\ steps = 0
    /\ last = Step("read_line", input, -1, <<>>, "Ok", EmptySession)
    /\ display_sets = <<>>
    /\ age = <<>>
    /\ assets = BundledAssets
    /\ loaded = None

\* Commands::from_str(input.trim())
Parse ==
    /\ pc = "parse"
    /\ command' = Some(from_str(Trim(input)))
    /\ pc' = "parsed"
    /\ UNCHANGED << args, overflow_checks, session, result, sampled, steps, last,
                    display_sets, input, age, assets, loaded >>

NextClassify == Parse

SpecClassify == InitClassify /\ [][NextClassify]_vars

(* --------------------------- the loaders alone ------------------------ *)

CsvChars == { "a", "b", COMMA, SP, NL }

\* both bundled tables hold any text of at most MaxCsvLen characters
InitLoad ==
    /\ \E t \in TextsUpTo(CsvChars, MaxCsvLen) :
          assets = [hiragana |-> t, katakana |-> t]
    /\ loaded = None
    /\ pc = "load"
    /\ args = [sets |-> <<>>, list |-> FALSE]
    /\ overflow_checks = FALSE
    /\ session = EmptySession
    /\ result = "running"
    /\ sampled = None
    /\ steps = 0
    /\ last = Step("start", <<>>, -1, <<>>, "Ok", EmptySession)
    /\ display_sets = <<>>
    /\ input = <<>>
    /\ command = None
    /\ age = <<>>

\* HiraganaStudySet::load
LoadHiragana ==
    /\ pc = "load"
    /\ loaded' = Some([set |-> HIRAGANA,
                       items |-> HiraganaItems(Lines(assets.hiragana))])
    /\ UNCHANGED << args, overflow_checks, session, pc, result, sampled, steps,
                    last, display_sets, input, command, age, assets >>

\* KatakanaStudySet::load
LoadKatakana ==
    /\ pc = "load"
    /\ loaded' = Some([set |-> KATAKANA,
                       items |-> KatakanaItems(Lines(assets.katakana))])
    /\ UNCHANGED << args, overflow_checks, session, pc, result, sampled, steps,
                    last, display_sets, input, command, age, assets >>

NextLoad ==
    \/ LoadHiragana
    \/ LoadKatakana

SpecLoad == InitLoad /\ [][NextLoad]_vars

(* ------------------------------ the claims ---------------------------- *)

AtLeastOne(ws) == \A i \in 1..Len(ws) : U32Le(One, ws[i])

\* w is v plus 1, as numbers
IsSucc(w, v) == CheckedAdd(v, One) = Some(w)

\* the answer of the latest Answer step and the item it was scored against
LastAnswer == from_str(Trim(last.line)).value.text
AnsweredRight == last.op = "Answer" /\ LastAnswer = sampled[1].item.back
AnsweredWrong == last.op = "Answer" /\ LastAnswer # sampled[1].item.back

\* C1: after any sequence of increment() and reset(index) calls on a
\* constructed session, every weight is at least 1.
C1_WeightsAtLeastOne == AtLeastOne(session.weights)

\* C2: a right answer calls reset(index) and then increment(): afterwards
\* the answered item's weight is 2 and every other weight is its value
\* before the cycle plus 1.
C2_RightAnswer ==
    AnsweredRight =>
        /\ last.calls = << "reset", "increment" >>
        /\ session.weights[last.arg + 1] = Two
        /\ \A j \in 1..Len(session.weights) :
              j # last.arg + 1 => IsSucc(session.weights[j], last.pre.weights[j])

\* C2 happens: a right answer on an item whose weight was above 1, among
\* items of differing weights
C2_Witness ==
    /\ AnsweredRight
    /\ U32Lt(One, last.pre.weights[last.arg + 1])
    /\ \E j \in 1..Len(last.pre.weights) : last.pre.weights[j] # last.pre.weights[1]

\* C3: a wrong answer (the empty string included) calls increment() once
\* and never reset: afterwards every weight, the answered item's included,
\* is its value before the cycle plus 1.
C3_WrongAnswer ==
    AnsweredWrong =>
        /\ last.calls = << "increment" >>
        /\ Len(session.weights) = Len(last.pre.weights)
        /\ \A j \in 1..Len(session.weights) :
              IsSucc(session.weights[j], last.pre.weights[j])

\* C3 happens: the empty string scored as a wrong answer in this behaviour
C3_Witness == AnsweredWrong /\ LastAnswer = <<>> /\ steps > 0

\* the distribution of s is the one its weights build
DistCurrent(s) ==
    /\ WeightedIndexNew(s.weights).tag = "Ok"
    /\ s.dist = Some(WeightedIndexNew(s.weights).value)

\* C4: whenever sample() reads the distribution, it is the one built from
\* the weights as they are at that moment.
C4_SampleReadsCurrentDist ==
    /\ (pc = "loop" /\ session.dist # None) => DistCurrent(session)
    /\ (last.op = "sample" /\ last.pre.dist # None) => DistCurrent(last.pre)

\* C4 happens: a sample taken after a reset and an increment changed the
\* weights
C4_Witness ==
    /\ last.op = "sample"
    /\ steps > 0
    /\ \E j \in 1..Len(last.pre.weights) : last.pre.weights[j] # last.pre.weights[1]

\* C5: the weights and the items have the same length in every state, and
\* no step after construction changes either length.
C5_SameLength ==
    /\ Len(session.weights) = Len(session.items)
    /\ Len(last.pre.weights) = Len(last.pre.items)
    /\ last.op # "new" => Len(session.items) = Len(last.pre.items)

\* C5 happens: a reset and an increment ran on a session of both sets
C5_Witness ==
    /\ last.calls = << "reset", "increment" >>
    /\ Len(session.items) = Len(HiraganaLoad) + Len(KatakanaLoad)

\* C6: reset(index) with index >= length succeeds and leaves weights and
\* distribution as they were; with index < length it sets weight[index]
\* to 1 and leaves every other weight as it was.
C6_Reset ==
    last.op = "reset" =>
        IF last.arg >= Len(last.pre.weights)
        THEN /\ last.status = "Ok"
             /\ session.weights = last.pre.weights
             /\ session.dist = last.pre.dist
        ELSE /\ Len(session.weights) = Len(last.pre.weights)
             /\ session.weights[last.arg + 1] = One
             /\ \A j \in 1..Len(session.weights) :
                   j # last.arg + 1 => session.weights[j] = last.pre.weights[j]

\* C6 happens: an out-of-bounds reset on a session whose weights are not
\* all 1
C6_Witness ==
    /\ last.op = "reset"
    /\ last.arg >= Len(last.pre.weights)
    /\ \E j \in 1..Len(last.pre.weights) : last.pre.weights[j] # One

\* C7: sample() leaves weights, items and distribution as they were,
\* whether it returns an item or none.
C7_SampleChangesNothing ==
    last.op = "sample" =>
        /\ session.weights = last.pre.weights
        /\ session.items = last.pre.items
        /\ session.dist = last.pre.dist

\* C7 happens: sample returned an item of a session whose weights had changed
C7_Witness == last.op = "sample" /\ sampled # None /\ steps > 0

\* C8: in a session with items, no answer cycle ever fails to rebuild the
\* distribution: reset() and increment() never return an error.
C8_RebuildNeverFails == last.op = "Answer" => last.status = "Ok"

NoneResolves(a) ==
    LET names == Split(a, COMMA)
    IN  \A i \in 1..Len(names) : get_set(names[i]) = None

\* C9: when no requested set resolves, the session has no items, the first
\* sample() returns none and the loop ends with success, no line read and
\* neither increment nor reset called.
C9_NoSets ==
    (~args.list /\ NoneResolves(args.sets) /\ pc # "main") =>
        /\ session.items = <<>>
        /\ session.weights = <<>>
        /\ pc \in {"loop", "exit"}
        /\ pc = "loop" => last.op = "new" /\ sample(session) = {None}
        /\ pc = "exit" =>
              /\ result = "ok"
              /\ last.op = "sample" /\ last.calls = << "sample" >>
              /\ sampled = None
              /\ last.pre = session
        /\ steps = 0

\* C9 happens: the session for an unknown set has ended
C9_Witness == ~args.list /\ args.sets = KANJI /\ pc = "exit"

\* C10: \h, \w and an unknown command do not consume a turn: no reset, no
\* increment, the weights as they were, and the loop goes on to prompt again.
C10_NoTurnConsumed ==
    last.op \in {"Help", "Weights", "Invalid"} =>
        /\ last.calls = <<>>
        /\ session = last.pre
        /\ pc = "loop"
        /\ result = "running"

\* C10 happens: an unknown command entered after the weights had changed
C10_Witness == last.op = "Invalid" /\ steps > 0 /\ session.weights # <<>>

\* C11: every trimmed line falls in exactly one class: \h, \w, \q are
\* Help, Weights, Quit; any other line that begins with a backslash is an
\* error; every other line, the empty one included, is an Answer carrying
\* the line as it is, so no line with the prefix is taken as an answer.
C11_Classes ==
    pc = "parsed" =>
        LET t == Trim(input)
            c == command[1]
            prefixed == Len(t) > 0 /\ t[1] = BS
            known == { << BS, "h" >>, << BS, "w" >>, << BS, "q" >> }
        IN  /\ t = << BS, "h" >> => c.tag = "Ok" /\ c.value.kind = "Help"
            /\ t = << BS, "w" >> => c.tag = "Ok" /\ c.value.kind = "Weights"
            /\ t = << BS, "q" >> => c.tag = "Ok" /\ c.value.kind = "Quit"
            /\ (prefixed /\ t \notin known) => c.tag = "Err"
            /\ ~prefixed =>
                  /\ c.tag = "Ok"
                  /\ c.value.kind = "Answer"
                  /\ c.value.text = t

\* C11 happens: a line that begins like \h but is no known command was parsed
C11_Witness == pc = "parsed" /\ Trim(input) = << BS, "h", "q" >>

\* C12: a session with items ends only on \q (with success and the weights
\* as they were) or on a failed read_line or rebuild; after every other
\* input the loop is back at its top, where sample() gives an item and the
\* next prompt follows.
C12_EndsOnlyOnQuit ==
    session.items # <<>> =>
        /\ pc = "exit" =>
              \/ last.op = "Quit" /\ result = "ok" /\ session = last.pre
              \/ last.op = "read_line" /\ result = "err"
              \/ last.op = "Answer" /\ last.status = "Err" /\ result = "err"
        /\ (\/ last.op \in {"Help", "Weights", "Invalid"}
            \/ last.op = "Answer" /\ last.status = "Ok") =>
              /\ pc = "loop"
              /\ sample(session) # {}
              /\ None \notin sample(session)
        /\ last.op = "sample" => pc = "read" /\ sampled # None

\* C12 happens: \q ended a session in which answers had been scored
C12_Witness ==
    /\ pc = "exit" /\ last.op = "Quit"
    /\ session.items # <<>>
    /\ steps > 0

\* the items of the named sets, one set after the other, unknown names
\* giving nothing
RECURSIVE InOrder(_)
InOrder(names) ==
    IF names = <<>> THEN <<>>
    ELSE (IF Head(names) = HIRAGANA THEN HiraganaLoad
          ELSE IF Head(names) = KATAKANA THEN KatakanaLoad
          ELSE <<>>) \o InOrder(Tail(names))

\* C13: the session's items are the items of the resolved sets in the order
\* the names were given, unknown names skipped without failure; for
\* "hiragana,katakana" that is every hiragana item, then every katakana
\* item; the sorted names shown by main leave the items as they are.
C13_ItemsInGivenOrder ==
    (pc # "main" /\ ~args.list) =>
        /\ session.items = InOrder(Split(args.sets, COMMA))
        /\ last.op = "new" => last.status = "Ok"
        /\ args.sets = HIRAGANA \o << COMMA >> \o KATAKANA =>
              /\ Len(session.items) = Len(HiraganaLoad) + Len(KatakanaLoad)
              /\ \A i \in 1..Len(HiraganaLoad) : session.items[i] = HiraganaLoad[i]
              /\ \A i \in 1..Len(KatakanaLoad) :
                    session.items[Len(HiraganaLoad) + i] = KatakanaLoad[i]
        /\ args.sets = KATAKANA \o << COMMA >> \o HIRAGANA =>
              /\ display_sets = << HIRAGANA, KATAKANA >>
              /\ session.sets = << KATAKANA, HIRAGANA >>
              /\ session.items = KatakanaLoad \o HiraganaLoad

\* C13 happens: a session for "katakana,hiragana", whose names sort into
\* the other order, after answers were scored
C13_Witness ==
    /\ args.sets = KATAKANA \o << COMMA >> \o HIRAGANA
    /\ display_sets = << HIRAGANA, KATAKANA >>
    /\ pc = "read"
    /\ steps > 0

\* a line's records as the claim counts them: the commas in it, and the
\* trimmed text before and after its one comma
Commas(line) == Cardinality({ i \in 1..Len(line) : line[i] = COMMA })
CommaAt(line) == CHOOSE i \in 1..Len(line) : line[i] = COMMA
Column0(line) == Trim(SubSeq(line, 1, CommaAt(line) - 1))
Column1(line) == Trim(SubSeq(line, CommaAt(line) + 1, Len(line)))
WellFormed(line) == Trim(line) # <<>> /\ Commas(line) = 1

\* C14: of the lines of a table, the loaders keep exactly those with two
\* columns, in order; hiragana stores trimmed column 0 as back and trimmed
\* column 1 as front, katakana trimmed column 0 as front and trimmed
\* column 1 as back; blank lines and lines with another number of columns
\* are left out and the load goes on.
C14_Columns ==
    loaded # None =>
        LET hira == loaded[1].set = HIRAGANA
            text == IF hira THEN assets.hiragana ELSE assets.katakana
            kept == SelectSeq(Lines(text), WellFormed)
            items == loaded[1].items
        IN  /\ Len(items) = Len(kept)
            /\ \A i \in 1..Len(kept) :
                  IF hira
                  THEN /\ items[i].back = Column0(kept[i])
                       /\ items[i].front = Column1(kept[i])
                  ELSE /\ items[i].front = Column0(kept[i])
                       /\ items[i].back = Column1(kept[i])

\* C14 happens: the hiragana loader read a record of differing columns
\* followed by a one-column line
C14_Witness ==
    /\ loaded # None
    /\ loaded[1].set = HIRAGANA
    /\ assets.hiragana = << "a", COMMA, "b", NL, "b" >>
    /\ Len(loaded[1].items) = 1

\* C15: the distribution is present exactly when there are weights, at
\* construction (every weight 1) and ever after; so sample() gives none
\* only in a session without items, and that exit comes on the first pass
\* of the loop, right after construction.
C15_DistIffWeights ==
    /\ session.dist # None <=> session.weights # <<>>
    /\ (last.op = "new" /\ last.status = "Ok") =>
          \A i \in 1..Len(session.weights) : session.weights[i] = One
    /\ (last.op = "sample" /\ sampled = None) =>
          /\ session.items = <<>>
          /\ steps = 0 /\ input = <<>> /\ command = None
    /\ (pc = "loop" /\ session.items = <<>>) => last.op = "new"

\* C15 happens: sample() gave none for an empty --sets value
C15_Witness ==
    /\ last.op = "sample" /\ sampled = None
    /\ args.sets = <<>>
    /\ session.dist = None

\* C16: in a session with items sample() always gives some (index, item)
\* with index below the length and item the entry at that index, and at
\* every turn of the loop each index of the store can be the one drawn.
C16_EveryItemDrawable ==
    session.items # <<>> =>
        /\ pc = "loop" =>
              /\ None \notin sample(session)
              /\ { r[1].index : r \in sample(session) } = 0..(Len(session.items) - 1)
              /\ \A r \in sample(session) : r[1].item = session.items[r[1].index + 1]
        /\ last.op = "sample" =>
              /\ sampled # None
              /\ sampled[1].index \in 0..(Len(session.items) - 1)
              /\ sampled[1].item = session.items[sampled[1].index + 1]

\* C16 happens: the item drawn has weight 2 while another item's weight is
\* above 2^16
C16_Witness ==
    /\ last.op = "sample" /\ sampled # None
    /\ session.weights[sampled[1].index + 1] = Two
    /\ \E j \in 1..Len(session.weights) : session.weights[j].hi > 0

\* C17: after any sequence of answer cycles, each weight is 1 plus the
\* number of cycles since, and including, the latest one that answered
\* that item right, or 1 plus the number of all cycles if none did.
C17_WeightIsOnePlusAge ==
    /\ Len(session.weights) = Len(age)
    /\ \A i \in 1..Len(age) : IsSucc(session.weights[i], age[i])

\* C17 happens: two right answers on item 0 of a fresh two-item session
\* leave the weights 2 and 3
C17_Witness ==
    /\ steps = 2
    /\ age = << One, Two >>
    /\ session.weights = << Two, U32(0, 3) >>

\* C18: a prompt always follows a fresh sample(); an answer is scored
\* against the item that sample drew, and a reset goes to that item's index
\* and no other; \h, \w and unknown commands go back to the top of the loop,
\* where the next sample is drawn, instead of keeping the item pending.
C18_ScoredAgainstLatestSample ==
    /\ pc = "read" =>
          /\ last.op = "sample"
          /\ sampled # None /\ last.arg = sampled[1].index
          /\ input = <<>>
    /\ last.op = "Answer" =>
          /\ last.arg = sampled[1].index
          /\ sampled[1].item = session.items[last.arg + 1]
          /\ (\E k \in 1..Len(last.calls) : last.calls[k] = "reset")
                <=> Trim(last.line) = sampled[1].item.back
          /\ \A j \in 1..Len(session.weights) :
                j # last.arg + 1 => IsSucc(session.weights[j], last.pre.weights[j])
    /\ last.op \in {"Help", "Weights", "Invalid"} => pc = "loop"

\* C18 happens: a right answer on an item other than the first, after an
\* earlier cycle
C18_Witness ==
    /\ AnsweredRight
    /\ last.arg > 0
    /\ steps > 1

====
